---- MODULE Spec2Model ----
(***************************************************************************)
(* A model of tools/freetype/ftdump.c: the command-line driver that loads  *)
(* a font through the FreeType engine, renders a list of glyph indices and *)
(* prints their bitmap metrics (and optionally the pixels) as JSON.        *)
(*                                                                         *)
(* A C string is a sequence of one-character strings; a NULL pointer is    *)
(* the record NULL.  A double is the exact decimal [num, den] that strtod  *)
(* reads (den a power of ten).  The engine (FreeType) is the environment:  *)
(* each of its calls succeeds or fails nondeterministically and a render   *)
(* returns any bitmap of the requested pixel mode within the bounds.       *)
(***************************************************************************)
EXTENDS Integers, Sequences, FiniteSets, TLC

(* ------------------------------ bounds --------------------------------- *)
\* longest glyph-list string drawn in Init (characters)
MaxListLen == 4
\* most comma-separated fields of a matrix argument drawn in Init
MaxMatrixVals == 7
\* most comma-separated fields of a delta argument drawn in Init
MaxDeltaVals == 3
\* widest and tallest bitmap the engine returns
MaxWidth == 2
MaxRows == 2
\* most padding bytes the engine appends to a bitmap row
MaxPad == 1

(* --------------------------- program constants ------------------------- *)
\* parse_csv_doubles(matrix_arg, mvals, 6) and (delta_arg, dvals, 2)
MatrixMax == 6
DeltaMax == 2
\* 16.16 and 26.6 scale factors
FixedOne == 65536
PosOne == 64

(* ------------------------------ C strings ------------------------------ *)
NULL == [null |-> TRUE, s |-> <<>>]

Str(s) == [null |-> FALSE, s |-> s]

Digits == <<"0", "1", "2", "3", "4", "5", "6", "7", "8", "9">>

IsDigit(c) == \E k \in 1..10 : Digits[k] = c

DigitVal(c) == (CHOOSE k \in 1..10 : Digits[k] = c) - 1

\* the number of leading characters of s that are decimal digits
RECURSIVE DigitRunLen(_)
DigitRunLen(s) ==
  IF s # <<>> /\ IsDigit(Head(s)) THEN 1 + DigitRunLen(Tail(s)) ELSE 0

\* the value of a sequence of decimal digits
RECURSIVE DigitsValue(_)
DigitsValue(ds) ==
  IF ds = <<>> THEN 0
  ELSE 10 * DigitsValue(SubSeq(ds, 1, Len(ds) - 1)) + DigitVal(ds[Len(ds)])

RECURSIVE Pow10(_)
Pow10(n) == IF n = 0 THEN 1 ELSE 10 * Pow10(n - 1)

\* a/b rounded toward zero, b > 0: the C conversion of a double to an integer
TruncDiv(a, b) == IF a >= 0 THEN a \div b ELSE -((-a) \div b)

\* strstr(h, n) != NULL
IsSubstr(h, n) ==
  \E k \in 0..(Len(h) - Len(n)) : SubSeq(h, k + 1, k + Len(n)) = n

\* the tokens successive strtok_r(.., ",", ..) calls return: the maximal
\* comma-free runs of s, empty runs skipped
RECURSIVE strtok_r(_)
strtok_r(s) ==
  IF s = <<>> THEN <<>>
  ELSE IF Head(s) = "," THEN strtok_r(Tail(s))
  ELSE LET n == CHOOSE k \in 1..Len(s) :
                  /\ \A j \in 1..k : s[j] # ","
                  /\ (k = Len(s) \/ s[k + 1] = ",")
       IN  <<SubSeq(s, 1, n)>> \o strtok_r(SubSeq(s, n + 2, Len(s)))

\* the first n elements of q (all of q when it is shorter)
Take(q, n) == SubSeq(q, 1, IF Len(q) < n THEN Len(q) ELSE n)

\* strtol(t, NULL, 10) for the characters the model draws (no white space):
\* an optional sign, then the longest run of digits; 0 when there is none
strtol(t) ==
  LET signed == t # <<>> /\ Head(t) \in {"-", "+"}
      body   == IF signed THEN Tail(t) ELSE t
      v      == DigitsValue(SubSeq(body, 1, DigitRunLen(body)))
  IN  IF signed /\ Head(t) = "-" THEN -v ELSE v

\* strtod(t, NULL) for the characters the model draws: an optional sign,
\* digits, an optional point and more digits; the exact decimal num/den
strtod(t) ==
  LET signed == t # <<>> /\ Head(t) \in {"-", "+"}
      body   == IF signed THEN Tail(t) ELSE t
      ni     == DigitRunLen(body)
      rest   == SubSeq(body, ni + 1, Len(body))
      nf     == IF rest # <<>> /\ Head(rest) = "." THEN DigitRunLen(Tail(rest)) ELSE 0
      mant   == DigitsValue(SubSeq(body, 1, ni) \o SubSeq(rest, 2, nf + 1))
      v      == IF ni + nf = 0 THEN 0 ELSE mant
      d      == IF ni + nf = 0 THEN 1 ELSE Pow10(nf)
  IN  [num |-> IF signed /\ Head(t) = "-" THEN -v ELSE v, den |-> d]

Zero == [num |-> 0, den |-> 1]

\* (FT_UInt)v for a 32-bit int v, as the two 16-bit halves of the unsigned
\* value hi * 65536 + lo (two's complement for a negative v)
FT_UInt(v) ==
  IF v >= 0 THEN [hi |-> v \div FixedOne, lo |-> v % FixedOne]
  ELSE [hi |-> (FixedOne - 1) - ((-v - 1) \div FixedOne),
        lo |-> (FixedOne - 1) - ((-v - 1) % FixedOne)]

(* --------------------------- parse_glyph_list -------------------------- *)
\* the number of commas of list plus one: the capacity calloc'ed for gids
CommaCount(list) == 1 + Cardinality({k \in 1..Len(list) : list[k] = ","})

\* what calloc and strdup do in parse_glyph_list: both succeed, calloc
\* fails, or strdup fails
AllocOutcomes == {"ok", "calloc_fails", "strdup_fails"}

\* a faulty variant: *out_count = count, the capacity, instead of idx, the ids parsed
\* (the ids calloc zeroed follow the parsed ones)
parse_glyph_list_ReportsCapacity(list, alloc) ==
  IF list.null \/ list.s = <<>> \/ alloc # "ok"
  THEN [null |-> TRUE, vals |-> <<>>, count |-> 0]
  ELSE LET toks == Take(strtok_r(list.s), CommaCount(list.s))
       IN  [null  |-> FALSE,
            vals  |-> [k \in 1..CommaCount(list.s) |->
                         IF k <= Len(toks) THEN strtol(toks[k]) ELSE 0],
            count |-> CommaCount(list.s)]

\* parse_glyph_list(list, &count), count being 0 before the call: the
\* pointer returned, the parsed ids and their number.  A NULL or empty list
\* and a failed allocation return NULL
parse_glyph_list(list, alloc) ==
  IF list.null \/ list.s = <<>> \/ alloc # "ok"
  THEN [null |-> TRUE, vals |-> <<>>, count |-> 0]
  ELSE LET toks == Take(strtok_r(list.s), CommaCount(list.s))
       IN  [null  |-> FALSE,
            vals  |-> [k \in 1..Len(toks) |-> strtol(toks[k])],
            count |-> Len(toks)]

(* ----------------------------- flag_includes --------------------------- *)
flag_includes(flags, needle) ==
  IF flags.null \/ flags.s = <<>> \/ needle = <<>> THEN FALSE
  ELSE IsSubstr(flags.s, needle)

(* --------------------------- parse_csv_doubles ------------------------- *)
\* parse_csv_doubles(arg, out, max) on an out array of zeros: the array
\* after the call and the count returned; ok tells whether strdup succeeds
parse_csv_doubles(arg, max, ok) ==
  IF arg.null \/ arg.s = <<>> \/ ~ok THEN [count |-> 0, out |-> [k \in 1..max |-> Zero]]
  ELSE LET toks == Take(strtok_r(arg.s), max)
       IN  [count |-> Len(toks),
            out   |-> [k \in 1..max |->
                         IF k <= Len(toks) THEN strtod(toks[k]) ELSE Zero]]

(* ------------------------- the affine transform ------------------------ *)
\* FT_Set_Transform(face, NULL, NULL): the identity matrix (16.16) and a
\* zero translation (26.6)
Identity == [xx |-> FixedOne, xy |-> 0, yx |-> 0, yy |-> FixedOne, x |-> 0, y |-> 0]

\* the locals matrix, delta and apply_transform on entry to an iteration;
\* matrix and delta are uninitialised and are not read while apply is FALSE
NoTransform == [apply |-> FALSE, m |-> [xx |-> 0, xy |-> 0, yx |-> 0, yy |-> 0, x |-> 0, y |-> 0]]

\* (FT_Fixed)(v * scale), (FT_Pos)(v * scale): the product rounded toward zero
ToFixed(v, scale) == TruncDiv(v.num * scale, v.den)

\* a faulty variant: each of values 5 and 6 seeds the translation as soon as it is
\* there (count >= 5 for tx)
MatrixStep_SeedsEach(matrix_arg, ok) ==
  IF matrix_arg.null \/ matrix_arg.s = <<>> THEN NoTransform
  ELSE LET p  == parse_csv_doubles(matrix_arg, MatrixMax, ok)
           tx == IF p.count >= 5 THEN p.out[5] ELSE Zero
           ty == IF p.count >= 6 THEN p.out[6] ELSE Zero
       IN  IF p.count >= 4
           THEN [apply |-> TRUE,
                 m |-> [xx |-> ToFixed(p.out[1], FixedOne),
                        yx |-> ToFixed(p.out[2], FixedOne),
                        xy |-> ToFixed(p.out[3], FixedOne),
                        yy |-> ToFixed(p.out[4], FixedOne),
                        x  |-> ToFixed(tx, PosOne),
                        y  |-> ToFixed(ty, PosOne)]]
           ELSE NoTransform

\* the matrix block of the loop body
MatrixStep(matrix_arg, ok) ==
  IF matrix_arg.null \/ matrix_arg.s = <<>> THEN NoTransform
  ELSE LET p  == parse_csv_doubles(matrix_arg, MatrixMax, ok)
           tx == IF p.count >= 6 THEN p.out[5] ELSE Zero
           ty == IF p.count >= 6 THEN p.out[6] ELSE Zero
       IN  IF p.count >= 4
           THEN [apply |-> TRUE,
                 m |-> [xx |-> ToFixed(p.out[1], FixedOne),
                        yx |-> ToFixed(p.out[2], FixedOne),
                        xy |-> ToFixed(p.out[3], FixedOne),
                        yy |-> ToFixed(p.out[4], FixedOne),
                        x  |-> ToFixed(tx, PosOne),
                        y  |-> ToFixed(ty, PosOne)]]
           ELSE NoTransform

\* the delta block of the loop body, t the locals after the matrix block
DeltaStep(t, delta_arg, ok) ==
  IF delta_arg.null \/ delta_arg.s = <<>> THEN t
  ELSE LET p    == parse_csv_doubles(delta_arg, DeltaMax, ok)
           base == IF t.apply THEN t.m ELSE Identity
       IN  IF p.count >= 2
           THEN [apply |-> TRUE,
                 m |-> [base EXCEPT !.x = @ + ToFixed(p.out[1], 1),
                                    !.y = @ + ToFixed(p.out[2], 1)]]
           ELSE t

\* the locals when the loop body reaches FT_Set_Transform
LoopTransform(matrix_arg, delta_arg, mok, dok) ==
  DeltaStep(MatrixStep(matrix_arg, mok), delta_arg, dok)

(* ------------------------- the engine's bitmaps ------------------------ *)
Abs(n) == IF n < 0 THEN -n ELSE n

Min(a, b) == IF a < b THEN a ELSE b

RECURSIVE Pow2(_)
Pow2(n) == IF n = 0 THEN 1 ELSE 2 * Pow2(n - 1)

\* the grey level the engine stores for an uncovered and a covered pixel
Coverage(ink) == IF ink = 0 THEN 0 ELSE 255

\* the packed byte k of logical row y of a 1-bit image: pixel 8k + b is bit 7 - b
RECURSIVE PackBits(_, _, _, _, _)
PackBits(img, w, y, k, b) ==
  IF b > 7 \/ 8 * k + b >= w THEN 0
  ELSE img[y * w + 8 * k + b + 1] * Pow2(7 - b) + PackBits(img, w, y, k, b + 1)

\* the bytes per row a pixel mode needs for w pixels
RowBytes(mode, w) == IF mode = "mono" THEN (w + 7) \div 8 ELSE w

\* the buffer the engine fills for image img (row-major, row 0 on top):
\* logical row y is physical row y when the pitch is positive and physical
\* row rows - 1 - y when it is negative; padding bytes are 0
EngineBuffer(mode, w, r, pitch, img) ==
  LET ap == Abs(pitch)
  IN  [n \in 1..(r * ap) |->
         LET prow == (n - 1) \div ap
             k    == (n - 1) % ap
             y    == IF pitch >= 0 THEN prow ELSE r - 1 - prow
         IN  IF k >= RowBytes(mode, w) THEN 0
             ELSE IF mode = "mono" THEN PackBits(img, w, y, k, 0)
             ELSE Coverage(img[y * w + k + 1])]

\* the bitmap the engine stores for image img of w x r pixels
EngineBitmap(mode, w, r, pitch, img) ==
  [null |-> FALSE, mode |-> mode, width |-> w, rows |-> r, pitch |-> pitch,
   image |-> img, buffer |-> EngineBuffer(mode, w, r, pitch, img)]

\* the slot's bitmap when nothing was rendered into it: no buffer
NoBitmap(mode) ==
  [null |-> TRUE, mode |-> mode, width |-> 0, rows |-> 0, pitch |-> 0,
   image |-> <<>>, buffer |-> <<>>]

\* what FT_Render_Glyph may leave in the glyph slot: any image of at most
\* lim x lim pixels, stored in either direction, rows padded or not (a row
\* of no pixels has no bytes); an empty bitmap may have no buffer at all
EngineBitmaps(mode, lim) ==
  UNION { { EngineBitmap(mode, w, r, sg * (RowBytes(mode, w) + pad), img) :
              img \in [1..(w * r) -> 0..1],
              sg \in (IF w = 0 THEN {1} ELSE {1, -1}),
              pad \in (IF w = 0 THEN {0} ELSE 0..MaxPad) } :
            w \in 0..Min(lim, MaxWidth), r \in 0..Min(lim, MaxRows) }
  \cup { NoBitmap(mode) }

\* bitmap_left, bitmap_top and advance.x (26.6) the engine may report
EngineMetrics ==
  { [left |-> 0, top |-> 0, advance |-> 0],
    [left |-> -1, top |-> 2, advance |-> -65] }

(* ------------------------- the pixel readback -------------------------- *)
\* int origin = pitch < 0 ? (rows - 1) * abs_pitch : 0
RowOrigin(rows, pitch) == IF pitch < 0 THEN (rows - 1) * Abs(pitch) ELSE 0

\* the index row + x the loop reads for logical row y and column x
ReadIndex(bm, y, x) == RowOrigin(bm.rows, bm.pitch) + y * bm.pitch + x

\* the indices the readback loop reads, in the order it prints them
ReadIndices(bm) ==
  [idx \in 1..(bm.width * bm.rows) |->
     ReadIndex(bm, (idx - 1) \div bm.width, (idx - 1) % bm.width)]

\* the values the readback loop prints; a read outside the buffer is
\* undefined and yields whatever byte junk lies there
ReadPixels(bm, junk) ==
  LET at == ReadIndices(bm)
  IN  [idx \in 1..(bm.width * bm.rows) |->
         IF at[idx] \in 0..(Len(bm.buffer) - 1) THEN bm.buffer[at[idx] + 1] ELSE junk]

\* the bytes that may lie outside a buffer
JunkBytes == {0, 171}

(* ------------------------------ the flags ------------------------------ *)
S_nohint == <<"n", "o", "h", "i", "n", "t">>
S_light == <<"l", "i", "g", "h", "t">>
S_mono == <<"m", "o", "n", "o">>
S_pixels == <<"p", "i", "x", "e", "l", "s">>

\* render_mode: FT_RENDER_MODE_MONO with the mono flag, else FT_RENDER_MODE_NORMAL
RenderMode(flags) == IF flag_includes(flags, S_mono) THEN "mono" ELSE "normal"

\* load_flags: FT_LOAD_NO_AUTOHINT | FT_LOAD_NO_BITMAP always, FT_LOAD_NO_HINTING
\* with nohint, and the hinting target, mono overriding light
LoadFlags(flags) ==
  [no_autohint |-> TRUE,
   no_bitmap   |-> TRUE,
   no_hinting  |-> flag_includes(flags, S_nohint),
   target      |-> IF flag_includes(flags, S_mono) THEN "mono"
                   ELSE IF flag_includes(flags, S_light) THEN "light"
                   ELSE "normal"]

(* ------------------------------- the state ----------------------------- *)
VARIABLES
  argv,             \* the command line, argv[1] the program name (C's argv[0])
  lowmem,           \* whether the allocator may fail in this run
  pc,               \* the position of main
  pixel_size, render_mode, load_flags,
  library, face,    \* the engine and face handles: "unset", "live", "done"
  transform,        \* the transform the face holds
  slot,             \* face->glyph: bitmap, bitmap_left, bitmap_top, advance.x
  gids, gid_count, i, apply_transform,
  heap,             \* the live heap blocks of main
  stdout,           \* what was printed: "[", the objects, the "," count, "]"
  stderr, status,
  calls,            \* history: the engine and free() calls made, in order
  reads             \* history: the buffer indices the last readback read

vars == <<argv, lowmem, pc, pixel_size, render_mode, load_flags, library, face,
          transform, slot, gids, gid_count, i, apply_transform, heap,
          stdout, stderr, status, calls, reads>>

argc == Len(argv)

\* argv[k] of the C program
Argv(k) == Str(argv[k + 1])

flags == IF argc >= 5 THEN Argv(4) ELSE NULL
matrix_arg == IF argc >= 6 THEN Argv(5) ELSE NULL
delta_arg == IF argc >= 7 THEN Argv(6) ELSE NULL

\* an entry of the call history; gid is the glyph index of an FT_Load_Glyph
Call(op, arg, err) == [op |-> op, arg |-> arg, err |-> err, gid |-> FT_UInt(0)]

LoadCall(gid, err) == [op |-> "FT_Load_Glyph", arg |-> "face", err |-> err, gid |-> gid]

\* the slot before anything is loaded, and after FT_Load_Glyph cleared it
EmptySlot == [bitmap |-> NoBitmap("normal"), left |-> 0, top |-> 0, advance |-> 0]

\* the JSON object printed for a glyph; gid is the FT_UInt printed with %u
Object(gid, w, r, left, top, adv, hasPixels, pixels) ==
  [gid |-> gid, width |-> w, rows |-> r, left |-> left, top |-> top,
   advanceX |-> adv, hasPixels |-> hasPixels, pixels |-> pixels]

\* the outcomes the allocator and the engine may have in this run
Allocs == IF lowmem THEN AllocOutcomes ELSE {"ok"}
StrdupOks == IF lowmem THEN BOOLEAN ELSE {TRUE}

(* ------------------------------- main ---------------------------------- *)
\* lines 66-92: the usage check, the arguments and the flag-derived modes
CheckArgs ==
  /\ pc = "start"
  /\ IF argc < 4
     THEN /\ stderr' = Append(stderr, "usage")
          /\ status' = 1
          /\ pc' = "exit"
          /\ UNCHANGED <<pixel_size, render_mode, load_flags>>
     ELSE /\ pixel_size' = strtol(Argv(2).s)
          /\ render_mode' = RenderMode(flags)
          /\ load_flags' = LoadFlags(flags)
          /\ pc' = "init"
          /\ UNCHANGED <<stderr, status>>
  /\ UNCHANGED <<argv, lowmem, library, face, transform, slot, gids, gid_count, i,
                 apply_transform, heap, stdout, calls, reads>>

\* lines 97-100: FT_Init_FreeType
InitFreeType ==
  /\ pc = "init"
  /\ \E ok \in BOOLEAN :
       IF ok
       THEN /\ library' = "live"
            /\ calls' = Append(calls, Call("FT_Init_FreeType", "library", 0))
            /\ pc' = "face"
            /\ UNCHANGED <<stderr, status>>
       ELSE /\ calls' = Append(calls, Call("FT_Init_FreeType", "library", 1))
            /\ stderr' = Append(stderr, "failed to init freetype")
            /\ status' = 1
            /\ pc' = "exit"
            /\ UNCHANGED library
  /\ UNCHANGED <<argv, lowmem, pixel_size, render_mode, load_flags, face, transform,
                 slot, gids, gid_count, i, apply_transform, heap, stdout, reads>>

\* lines 102-106: FT_New_Face; a new face holds the identity transform
NewFace ==
  /\ pc = "face"
  /\ \E ok \in BOOLEAN :
       IF ok
       THEN /\ face' = "live"
            /\ transform' = Identity
            /\ calls' = Append(calls, Call("FT_New_Face", "face", 0))
            /\ pc' = "size"
            /\ UNCHANGED <<library, stderr, status>>
       ELSE /\ calls' = calls \o <<Call("FT_New_Face", "face", 1),
                                   Call("FT_Done_FreeType", "library", 0)>>
            /\ library' = "done"
            /\ stderr' = Append(stderr, "failed to load font")
            /\ status' = 1
            /\ pc' = "exit"
            /\ UNCHANGED <<face, transform>>
  /\ UNCHANGED <<argv, lowmem, pixel_size, render_mode, load_flags, slot, gids,
                 gid_count, i, apply_transform, heap, stdout, reads>>

\* a faulty variant: the pixel-size error path forgets FT_Done_Face
SetPixelSizes_LeaksFace ==
  /\ pc = "size"
  /\ \E ok \in BOOLEAN :
       IF ok
       THEN /\ calls' = Append(calls, Call("FT_Set_Pixel_Sizes", "face", 0))
            /\ pc' = "parse"
            /\ UNCHANGED <<library, face, stderr, status>>
       ELSE /\ calls' = calls \o <<Call("FT_Set_Pixel_Sizes", "face", 1),
                                   Call("FT_Done_FreeType", "library", 0)>>
            /\ library' = "done"
            /\ stderr' = Append(stderr, "failed to set pixel size")
            /\ status' = 1
            /\ pc' = "exit"
            /\ UNCHANGED face
  /\ UNCHANGED <<argv, lowmem, pixel_size, render_mode, load_flags, transform, slot,
                 gids, gid_count, i, apply_transform, heap, stdout, reads>>

\* lines 108-113: FT_Set_Pixel_Sizes
SetPixelSizes ==
  /\ pc = "size"
  /\ \E ok \in BOOLEAN :
       IF ok
       THEN /\ calls' = Append(calls, Call("FT_Set_Pixel_Sizes", "face", 0))
            /\ pc' = "parse"
            /\ UNCHANGED <<library, face, stderr, status>>
       ELSE /\ calls' = calls \o <<Call("FT_Set_Pixel_Sizes", "face", 1),
                                   Call("FT_Done_Face", "face", 0),
                                   Call("FT_Done_FreeType", "library", 0)>>
            /\ face' = "done"
            /\ library' = "done"
            /\ stderr' = Append(stderr, "failed to set pixel size")
            /\ status' = 1
            /\ pc' = "exit"
  /\ UNCHANGED <<argv, lowmem, pixel_size, render_mode, load_flags, transform, slot,
                 gids, gid_count, i, apply_transform, heap, stdout, reads>>

\* lines 115-125: parse_glyph_list, the empty-list exit, and the opening "["
ParseGlyphs ==
  /\ pc = "parse"
  /\ \E alloc \in Allocs :
       LET r == parse_glyph_list(Argv(3), alloc)
       IN  /\ gids' = [null |-> r.null, vals |-> r.vals]
           /\ gid_count' = r.count
           /\ IF r.null \/ r.count = 0
              THEN /\ stderr' = Append(stderr, "empty glyph list")
                   /\ calls' = calls \o <<Call("FT_Done_Face", "face", 0),
                                          Call("FT_Done_FreeType", "library", 0),
                                          Call("free", IF r.null THEN "NULL" ELSE "gids", 0)>>
                   /\ face' = "done"
                   /\ library' = "done"
                   /\ heap' = (heap \cup (IF r.null THEN {} ELSE {"gids"})) \ {"gids"}
                   /\ status' = 1
                   /\ pc' = "exit"
                   /\ UNCHANGED stdout
              ELSE /\ heap' = heap \cup {"gids"}
                   /\ stdout' = [stdout EXCEPT !.open = TRUE]
                   /\ pc' = "loop"
                   /\ UNCHANGED <<stderr, calls, face, library, status>>
  /\ UNCHANGED <<argv, lowmem, pixel_size, render_mode, load_flags, transform, slot,
                 i, apply_transform, reads>>

\* lines 126-170: the loop test, the "," between objects, the transform of
\* this iteration and FT_Set_Transform
SetTransform ==
  /\ pc = "loop"
  /\ i < gid_count
  /\ \E mok \in StrdupOks, dok \in StrdupOks :
       LET t == LoopTransform(matrix_arg, delta_arg, mok, dok)
       IN  /\ apply_transform' = t.apply
           /\ transform' = IF t.apply THEN t.m ELSE Identity
           /\ calls' = Append(calls, Call("FT_Set_Transform",
                                          IF t.apply THEN "matrix" ELSE "NULL", 0))
  /\ stdout' = [stdout EXCEPT !.commas = IF i > 0 THEN @ + 1 ELSE @]
  /\ pc' = "load"
  /\ UNCHANGED <<argv, lowmem, pixel_size, render_mode, load_flags, library, face,
                 slot, gids, gid_count, i, heap, stderr, status, reads>>

\* lines 172-173: FT_Load_Glyph, which clears the slot
LoadGlyph ==
  /\ pc = "load"
  /\ \E ok \in BOOLEAN :
       /\ calls' = Append(calls, LoadCall(FT_UInt(gids.vals[i + 1]), IF ok THEN 0 ELSE 1))
       /\ pc' = IF ok THEN "render" ELSE "failed"
  /\ slot' = EmptySlot
  /\ UNCHANGED <<argv, lowmem, pixel_size, render_mode, load_flags, library, face,
                 transform, gids, gid_count, i, apply_transform, heap, stdout,
                 stderr, status, reads>>

\* lines 174-177: FT_Render_Glyph in render_mode
RenderGlyph ==
  /\ pc = "render"
  /\ \/ /\ calls' = Append(calls, Call("FT_Render_Glyph", render_mode, 1))
        /\ pc' = "failed"
        /\ UNCHANGED slot
     \/ \E bm \in EngineBitmaps(render_mode, pixel_size), m \in EngineMetrics :
          /\ slot' = [bitmap |-> bm, left |-> m.left, top |-> m.top,
                      advance |-> m.advance]
          /\ calls' = Append(calls, Call("FT_Render_Glyph", render_mode, 0))
          /\ pc' = "emit"
  /\ UNCHANGED <<argv, lowmem, pixel_size, render_mode, load_flags, library, face,
                 transform, gids, gid_count, i, apply_transform, heap, stdout,
                 stderr, status, reads>>

\* a faulty variant: the failure path continues before it prints the object
EmitFailure_NoObject ==
  /\ pc = "failed"
  /\ IF apply_transform
     THEN /\ transform' = Identity
          /\ calls' = Append(calls, Call("FT_Set_Transform", "NULL", 0))
     ELSE UNCHANGED <<transform, calls>>
  /\ i' = i + 1
  /\ pc' = "loop"
  /\ UNCHANGED <<argv, lowmem, pixel_size, render_mode, load_flags, library, face,
                 slot, gids, gid_count, apply_transform, heap, stdout, stderr, status,
                 reads>>

\* a faulty variant: the failure path breaks out of the loop instead of continuing
EmitFailure_Breaks ==
  /\ pc = "failed"
  /\ IF apply_transform
     THEN /\ transform' = Identity
          /\ calls' = Append(calls, Call("FT_Set_Transform", "NULL", 0))
     ELSE UNCHANGED <<transform, calls>>
  /\ stdout' = [stdout EXCEPT !.objs =
                  Append(@, Object(FT_UInt(gids.vals[i + 1]), 0, 0, 0, 0, 0, FALSE, <<>>))]
  /\ i' = gid_count
  /\ pc' = "loop"
  /\ UNCHANGED <<argv, lowmem, pixel_size, render_mode, load_flags, library, face,
                 slot, gids, gid_count, apply_transform, heap, stderr, status, reads>>

\* a faulty variant: the failure path leaves the transform installed
EmitFailure_KeepsTransform ==
  /\ pc = "failed"
  /\ stdout' = [stdout EXCEPT !.objs =
                  Append(@, Object(FT_UInt(gids.vals[i + 1]), 0, 0, 0, 0, 0, FALSE, <<>>))]
  /\ i' = i + 1
  /\ pc' = "loop"
  /\ UNCHANGED <<argv, lowmem, pixel_size, render_mode, load_flags, library, face,
                 transform, calls, slot, gids, gid_count, apply_transform, heap,
                 stderr, status, reads>>

\* lines 179-184: the per-glyph failure path
EmitFailure ==
  /\ pc = "failed"
  /\ IF apply_transform
     THEN /\ transform' = Identity
          /\ calls' = Append(calls, Call("FT_Set_Transform", "NULL", 0))
     ELSE UNCHANGED <<transform, calls>>
  /\ stdout' = [stdout EXCEPT !.objs =
                  Append(@, Object(FT_UInt(gids.vals[i + 1]), 0, 0, 0, 0, 0, FALSE, <<>>))]
  /\ i' = i + 1
  /\ pc' = "loop"
  /\ UNCHANGED <<argv, lowmem, pixel_size, render_mode, load_flags, library, face,
                 slot, gids, gid_count, apply_transform, heap, stderr, status, reads>>

\* lines 186-221: the metrics, the pixel readback and the transform reset
EmitGlyph ==
  /\ pc = "emit"
  /\ LET bm  == slot.bitmap
         pix == flag_includes(flags, S_pixels) /\ ~bm.null
     IN  \E junk \in JunkBytes :
           /\ stdout' = [stdout EXCEPT !.objs =
                Append(@, Object(FT_UInt(gids.vals[i + 1]), bm.width, bm.rows,
                                 slot.left, slot.top, slot.advance \div PosOne,
                                 pix, IF pix THEN ReadPixels(bm, junk) ELSE <<>>))]
           /\ reads' = IF pix THEN ReadIndices(bm) ELSE <<>>
  /\ IF apply_transform
     THEN /\ transform' = Identity
          /\ calls' = Append(calls, Call("FT_Set_Transform", "NULL", 0))
     ELSE UNCHANGED <<transform, calls>>
  /\ i' = i + 1
  /\ pc' = "loop"
  /\ UNCHANGED <<argv, lowmem, pixel_size, render_mode, load_flags, library, face,
                 slot, gids, gid_count, apply_transform, heap, stderr, status>>

\* lines 222-227: the closing "]" and the teardown
Finish ==
  /\ pc = "loop"
  /\ i >= gid_count
  /\ stdout' = [stdout EXCEPT !.closed = TRUE]
  /\ calls' = calls \o <<Call("free", "gids", 0),
                         Call("FT_Done_Face", "face", 0),
                         Call("FT_Done_FreeType", "library", 0)>>
  /\ heap' = heap \ {"gids"}
  /\ face' = "done"
  /\ library' = "done"
  /\ status' = 0
  /\ pc' = "exit"
  /\ UNCHANGED <<argv, lowmem, pixel_size, render_mode, load_flags, transform, slot,
                 gids, gid_count, i, apply_transform, stderr, reads>>

Next ==
  \/ CheckArgs
  \/ InitFreeType
  \/ NewFace
  \/ SetPixelSizes
  \/ ParseGlyphs
  \/ SetTransform
  \/ LoadGlyph
  \/ RenderGlyph
  \/ EmitFailure
  \/ EmitGlyph
  \/ Finish

(* ------------------------------ the inputs ----------------------------- *)
\* fields joined by commas into one string
RECURSIVE Join(_)
Join(fields) ==
  IF fields = <<>> THEN <<>>
  ELSE IF Len(fields) = 1 THEN fields[1]
  ELSE fields[1] \o <<",">> \o Join(Tail(fields))

\* the first k fields of base, base repeated as often as needed
Fields(base, k) == [j \in 1..k |-> base[((j - 1) % Len(base)) + 1]]

\* the decimal digits of n >= 0
RECURSIVE NumStr(_)
NumStr(n) == IF n < 10 THEN <<Digits[n + 1]>> ELSE NumStr(n \div 10) \o <<Digits[(n % 10) + 1]>>

Prog == <<"f", "t", "d", "u", "m", "p">>
Font == <<"a", ".", "t", "t", "f">>

\* every glyph-list string of at most MaxListLen characters
GidChars == {"1", "-", "a", ","}
GidLists == UNION { [1..n -> GidChars] : n \in 0..MaxListLen }

MatrixBases ==
  { << <<"2">>, <<"0">>, <<"0">>, <<"2">>, <<"1">>, <<"3">>, <<"9">> >>,
    << <<"0", ".", "5">>, <<"x">>, <<>>, <<"-", "1", ".", "5">>, <<"0", ".", "0", "1">>,
       <<"-", "0", ".", "3">>, <<"7">> >> }
MatrixArgs == { Join(Fields(b, k)) : b \in MatrixBases, k \in 0..MaxMatrixVals }

DeltaBases ==
  { << <<"3">>, <<"4">>, <<"5">> >>,
    << <<"-", "1", ".", "5">>, <<"0", ".", "5">>, <<"x">> >>,
    << <<>>, <<"6", "4">>, <<"-", "7">> >> }
DeltaArgs == { Join(Fields(b, k)) : b \in DeltaBases, k \in 0..MaxDeltaVals }

FlagArgs ==
  { <<>>, S_pixels, S_mono, S_mono \o <<",">> \o S_pixels, S_pixels \o S_mono,
    S_nohint \o <<",">> \o S_light, S_light \o <<",">> \o S_mono,
    <<"p", "i", "x", "e", "l">> }

\* the command lines of the runs checked
Argvs ==
  { <<Prog>>, <<Prog, Font, NumStr(1)>> }
  \cup { <<Prog, Font, NumStr(0), l>> : l \in GidLists }
  \cup { <<Prog, Font, NumStr(1), l, S_pixels, m, d>> :
           l \in { <<"1", ",", "-", "1">>, <<"a">>, <<",">> },
           m \in { Join(Fields(b, 6)) : b \in MatrixBases },
           d \in { <<>>, <<"3", ",", "4">> } }
  \cup { <<Prog, Font, NumStr(0), <<"7">>, <<>>, m>> : m \in MatrixArgs }
  \cup { <<Prog, Font, NumStr(0), <<"7">>, <<>>, m, d>> : m \in MatrixArgs, d \in DeltaArgs }
  \cup { <<Prog, Font, NumStr(MaxWidth + MaxRows), <<"7">>, f>> : f \in FlagArgs }

Init ==
  /\ argv \in Argvs
  /\ lowmem \in (IF Len(argv) = 7 \/ (Len(argv) = 4 /\ Len(argv[4]) <= 1)
                 THEN BOOLEAN ELSE {FALSE})
  /\ pc = "start"
  /\ pixel_size = 0
  /\ render_mode = "normal"
  /\ load_flags = LoadFlags(NULL)
  /\ library = "unset"
  /\ face = "unset"
  /\ transform = Identity
  /\ slot = EmptySlot
  /\ gids = [null |-> TRUE, vals |-> <<>>]
  /\ gid_count = 0
  /\ i = 0
  /\ apply_transform = FALSE
  /\ heap = {}
  /\ stdout = [open |-> FALSE, objs |-> <<>>, commas |-> 0, closed |-> FALSE]
  /\ stderr = <<>>
  /\ status = 0
  /\ calls = <<>>
  /\ reads = <<>>

Spec == Init /\ [][Next]_vars

(* ------------------------- reading the history ------------------------- *)
\* the positions in calls of the calls of op
CallPos(op) == { n \in 1..Len(calls) : calls[n].op = op }

Succeeded(op) == \E n \in CallPos(op) : calls[n].err = 0

\* the position of the k-th FT_Load_Glyph call
LoadPos(k) ==
  CHOOSE n \in CallPos("FT_Load_Glyph") :
    Cardinality({ m \in CallPos("FT_Load_Glyph") : m < n }) = k - 1

\* the load or the render of the k-th glyph failed
GlyphFailed(k) ==
  LET n == LoadPos(k)
  IN  \/ calls[n].err = 1
      \/ /\ n < Len(calls)
         /\ calls[n + 1].op = "FT_Render_Glyph"
         /\ calls[n + 1].err = 1

\* the k-th glyph was loaded and rendered
GlyphRendered(k) ==
  LET n == LoadPos(k)
  IN  /\ calls[n].err = 0
      /\ n < Len(calls)
      /\ calls[n + 1].op = "FT_Render_Glyph"
      /\ calls[n + 1].err = 0

\* the glyph list was parsed into at least one id
Parsed == Succeeded("FT_Set_Pixel_Sizes") /\ ~gids.null /\ gid_count >= 1

ZeroObject(gid) == Object(gid, 0, 0, 0, 0, 0, FALSE, <<>>)

(* ---------------------------------- C1 --------------------------------- *)
\* C1: when the engine, the face and the pixel size are set up and the glyph
\* list parses to N >= 1 ids, the finished run has printed one array ("[",
\* "]", N - 1 commas) of exactly N objects, the k-th object's gid being the k-th parsed id
\* as the FT_UInt the program prints (the id itself when it is not negative),
\* and exits with status 0, whatever each load and render returned; while
\* the loop runs, one object has been printed per glyph done.
C1_OneObjectPerGlyph ==
  Parsed =>
    /\ stdout.open
    /\ Len(stdout.objs) = (IF pc = "exit" THEN gid_count ELSE i)
    /\ \A k \in 1..Len(stdout.objs) :
         /\ stdout.objs[k].gid = FT_UInt(gids.vals[k])
         /\ gids.vals[k] >= 0 =>
              stdout.objs[k].gid.hi * FixedOne + stdout.objs[k].gid.lo = gids.vals[k]
    /\ pc = "exit" => (status = 0 /\ stdout.closed /\ stdout.commas = gid_count - 1)
    /\ pc # "exit" => ~stdout.closed

\* a finished run of a list with a repeated id, one glyph failed and one rendered
C1_Witness ==
  /\ pc = "exit"
  /\ Parsed
  /\ gid_count = 2
  /\ gids.vals[1] = gids.vals[2]
  /\ gids.vals[1] = 1
  /\ GlyphFailed(1)
  /\ GlyphRendered(2)
  /\ Len(stdout.objs) = 2

(* ---------------------------------- C2 --------------------------------- *)
\* C2: the object printed for a glyph whose load or render failed has width,
\* rows, left, top and advanceX 0 and no pixels; the loop goes on: in a
\* finished run every parsed id was passed to FT_Load_Glyph, in order, every
\* one has its object, and the status is 0.
C2_FailureIsZeroObject ==
  Parsed =>
    /\ \A k \in 1..Len(stdout.objs) :
         GlyphFailed(k) => stdout.objs[k] = ZeroObject(FT_UInt(gids.vals[k]))
    /\ pc = "exit" =>
         /\ status = 0
         /\ Cardinality(CallPos("FT_Load_Glyph")) = gid_count
         /\ \A k \in 1..gid_count : calls[LoadPos(k)].gid = FT_UInt(gids.vals[k])
         /\ Len(stdout.objs) = gid_count

\* a finished run whose first glyph failed and whose second has metrics
C2_Witness ==
  /\ pc = "exit"
  /\ Parsed
  /\ gid_count = 2
  /\ GlyphFailed(1)
  /\ stdout.objs[1] = ZeroObject(FT_UInt(gids.vals[1]))
  /\ GlyphRendered(2)
  /\ stdout.objs[2].left = -1

(* ---------------------------------- C3 --------------------------------- *)
\* strtol converts no character of tok
NonNumeric(tok) ==
  LET body == IF tok # <<>> /\ Head(tok) \in {"-", "+"} THEN Tail(tok) ELSE tok
  IN  DigitRunLen(body) = 0

\* the comma-separated tokens of the glyph-list argument
ListTokens == IF argc >= 4 THEN strtok_r(argv[4]) ELSE <<>>

NothingPrinted ==
  ~stdout.open /\ stdout.objs = <<>> /\ stdout.commas = 0 /\ ~stdout.closed

\* C3 as claimed: a finished run on an empty glyph list, or on one whose
\* tokens are all non-numeric, has status 1 and has printed no JSON.
C3_Claimed ==
  (pc = "exit" /\ argc >= 4 /\ \A k \in 1..Len(ListTokens) : NonNumeric(ListTokens[k]))
    => (status = 1 /\ NothingPrinted)

\* C3 as amended: a finished run on a glyph list without any token (empty,
\* or commas only) has status 1 and has printed no JSON; a non-numeric token
\* is no error: it parses to glyph id 0, and once the engine is set up and
\* the id buffer allocated the run prints one object per token, gid 0 for
\* each non-numeric one, and exits 0.
C3_NoTokenIsTheError ==
  (pc = "exit" /\ argc >= 4) =>
    /\ ListTokens = <<>> => (status = 1 /\ NothingPrinted)
    /\ (ListTokens # <<>> /\ Succeeded("FT_Set_Pixel_Sizes") /\ ~gids.null) =>
         /\ status = 0
         /\ Len(stdout.objs) = Len(ListTokens)
         /\ \A k \in 1..Len(ListTokens) :
              NonNumeric(ListTokens[k]) => stdout.objs[k].gid = FT_UInt(0)

\* a run set up by the engine that ends on a list of commas only: an id
\* buffer was allocated, nothing was parsed into it
C3_Witness ==
  /\ pc = "exit"
  /\ argc >= 4
  /\ argv[4] # <<>>
  /\ ListTokens = <<>>
  /\ Succeeded("FT_Set_Pixel_Sizes")
  /\ ~gids.null
  /\ status = 1
  /\ NothingPrinted

(* ---------------------------------- C4 --------------------------------- *)
Count(op) == Cardinality(CallPos(op))

\* the positions of the calls that use the face, and of those that use the engine
FaceUses ==
  CallPos("FT_Set_Pixel_Sizes") \cup CallPos("FT_Set_Transform")
    \cup CallPos("FT_Load_Glyph") \cup CallPos("FT_Render_Glyph")
EngineUses == FaceUses \cup CallPos("FT_New_Face") \cup CallPos("FT_Done_Face")

FreedGids == { n \in CallPos("free") : calls[n].arg = "gids" }

\* C4: a handle or buffer is released at most once and only when it was
\* acquired, the face before the engine, and nothing uses a handle after its
\* release; when main has returned, on whichever path, every handle and
\* buffer acquired has been released and no heap block is left.
C4_ReleasedExactlyOnce ==
  /\ Count("FT_Done_FreeType") <= 1
  /\ Count("FT_Done_Face") <= 1
  /\ Cardinality(FreedGids) <= 1
  /\ Count("FT_Done_FreeType") = 1 => Succeeded("FT_Init_FreeType")
  /\ Count("FT_Done_Face") = 1 => Succeeded("FT_New_Face")
  /\ Cardinality(FreedGids) = 1 => ~gids.null
  /\ \A f \in CallPos("FT_Done_Face"), e \in CallPos("FT_Done_FreeType") : f < e
  /\ \A f \in CallPos("FT_Done_Face"), u \in FaceUses : u < f
  /\ \A e \in CallPos("FT_Done_FreeType"), u \in EngineUses : u < e
  /\ library = "done" <=> Count("FT_Done_FreeType") = 1
  /\ face = "done" <=> Count("FT_Done_Face") = 1
  /\ pc = "exit" =>
       /\ Succeeded("FT_Init_FreeType") => Count("FT_Done_FreeType") = 1
       /\ Succeeded("FT_New_Face") => Count("FT_Done_Face") = 1
       /\ ~gids.null => Cardinality(FreedGids) = 1
       /\ heap = {}

\* main has returned after FT_Set_Pixel_Sizes failed: an early error path
\* that holds the face and the engine
C4_Witness ==
  /\ pc = "exit"
  /\ status = 1
  /\ \E n \in CallPos("FT_Set_Pixel_Sizes") : calls[n].err = 1
  /\ Count("FT_Done_Face") = 1
  /\ Count("FT_Done_FreeType") = 1

(* ---------------------------------- C5 --------------------------------- *)
InIteration == pc \in {"load", "render", "failed", "emit"}

\* the comma-separated values of the matrix and of the delta argument
MatrixTokens == IF matrix_arg.null THEN <<>> ELSE strtok_r(matrix_arg.s)
DeltaTokens == IF delta_arg.null THEN <<>> ELSE strtok_r(delta_arg.s)

\* C5: the face holds a transform other than the identity only inside an
\* iteration, between that iteration's FT_Set_Transform and its end, on the
\* failure path as on the success path: it is the identity whenever the loop
\* is at its head and when main has returned.  Every FT_Load_Glyph directly
\* follows an FT_Set_Transform, which clears the transform (NULL, NULL) when
\* neither the matrix nor the delta is usable.
C5_TransformClearedPerGlyph ==
  /\ (face # "unset" /\ ~InIteration) => transform = Identity
  /\ (InIteration /\ ~apply_transform) => transform = Identity
  /\ \A n \in CallPos("FT_Load_Glyph") : n > 1 /\ calls[n - 1].op = "FT_Set_Transform"
  /\ pc = "load" =>
       /\ calls[Len(calls)].op = "FT_Set_Transform"
       /\ calls[Len(calls)].arg = "NULL" <=> ~apply_transform
       /\ (Len(MatrixTokens) < 4 /\ Len(DeltaTokens) < 2) => calls[Len(calls)].arg = "NULL"

\* the loop is back at its head after a glyph failed under a transform that
\* is not the identity
C5_Witness ==
  /\ pc = "loop"
  /\ i >= 1
  /\ GlyphFailed(i)
  /\ apply_transform
  /\ LoopTransform(matrix_arg, delta_arg, TRUE, TRUE).m # Identity
  /\ calls[Len(calls)] = Call("FT_Set_Transform", "NULL", 0)
  /\ transform = Identity

(* ---------------------------------- C6 --------------------------------- *)
MVal(k) == strtod(MatrixTokens[k])
DVal(k) == strtod(DeltaTokens[k])

\* the 2x2 part of the face's transform is values 1-4 of the matrix CSV in 16.16
LinearIsMatrix ==
  /\ transform.xx = TruncDiv(MVal(1).num * FixedOne, MVal(1).den)
  /\ transform.yx = TruncDiv(MVal(2).num * FixedOne, MVal(2).den)
  /\ transform.xy = TruncDiv(MVal(3).num * FixedOne, MVal(3).den)
  /\ transform.yy = TruncDiv(MVal(4).num * FixedOne, MVal(4).den)

\* value k of the matrix CSV in 26.6
Seed(k) == TruncDiv(MVal(k).num * PosOne, MVal(k).den)

\* C6 as claimed (no allocation failing, the delta unusable): with k >= 4
\* matrix values the transform installed has values 1-4 as its 2x2 part and
\* each of values 5 and 6 that is present as its translation, 0 for an absent
\* one; with k < 4 no matrix is installed.
C6_Claimed ==
  (pc = "load" /\ ~lowmem /\ Len(DeltaTokens) < 2) =>
    LET k == Len(MatrixTokens)
    IN  /\ k >= 4 =>
             /\ apply_transform
             /\ LinearIsMatrix
             /\ transform.x = (IF k >= 5 THEN Seed(5) ELSE 0)
             /\ transform.y = (IF k >= 6 THEN Seed(6) ELSE 0)
        /\ k < 4 => (~apply_transform /\ transform = Identity)

\* C6 as amended: with k >= 4 matrix values (and the copy of the CSV
\* allocated) the transform installed has values 1-4 as its 2x2 part in 16.16;
\* values 5 and 6 seed the translation (26.6) only when both are present
\* (k >= 6), else the seed is 0, 0: a fifth value alone is ignored.  With
\* k < 4 no matrix is installed: the 2x2 part stays the identity.  When the
\* copy cannot be allocated no matrix is installed either.
C6_TranslationNeedsBothValues ==
  pc = "load" =>
    LET k      == Len(MatrixTokens)
        nodelta == Len(DeltaTokens) < 2
    IN  /\ (k >= 4 /\ ~lowmem) => (apply_transform /\ LinearIsMatrix)
        /\ (k >= 4 /\ ~lowmem /\ nodelta) =>
             /\ transform.x = (IF k >= 6 THEN Seed(5) ELSE 0)
             /\ transform.y = (IF k >= 6 THEN Seed(6) ELSE 0)
        /\ (k >= 4 /\ lowmem /\ nodelta) =>
             \/ ~apply_transform /\ transform = Identity
             \/ /\ apply_transform
                /\ LinearIsMatrix
                /\ transform.x = (IF k >= 6 THEN Seed(5) ELSE 0)
                /\ transform.y = (IF k >= 6 THEN Seed(6) ELSE 0)
        /\ k < 4 => (transform.xx = FixedOne /\ transform.xy = 0
                     /\ transform.yx = 0 /\ transform.yy = FixedOne)
        /\ (k < 4 /\ nodelta) => (~apply_transform /\ transform = Identity)

\* a matrix of exactly five values is installed: its fifth value, not zero,
\* did not become the translation
C6_Witness ==
  /\ pc = "load"
  /\ ~lowmem
  /\ Len(DeltaTokens) < 2
  /\ Len(MatrixTokens) = 5
  /\ Seed(5) # 0
  /\ apply_transform
  /\ LinearIsMatrix
  /\ transform.xy # transform.yx
  /\ transform.x = 0

(* ---------------------------------- C7 --------------------------------- *)
\* the sum of two decimals
Add(a, b) == [num |-> a.num * b.den + b.num * a.den, den |-> a.den * b.den]

One == <<"1">>
Nought == <<"0">>

\* C7 as claimed (no allocation failing): a delta dx,dy without a usable
\* matrix installs what the matrix 1,0,0,1,dx,dy installs; with a matrix
\* xx,yx,xy,yy,tx,ty it installs what the matrix xx,yx,xy,yy,tx+dx,ty+dy
\* installs; a delta of fewer than 2 values changes nothing.
C7_Claimed ==
  (pc = "load" /\ ~lowmem) =>
    LET mk == Len(MatrixTokens)
        dk == Len(DeltaTokens)
        m  == MatrixStep(matrix_arg, TRUE)
        tx == IF mk >= 6 THEN MVal(5) ELSE Zero
        ty == IF mk >= 6 THEN MVal(6) ELSE Zero
    IN  /\ (dk >= 2 /\ mk < 4) =>
             /\ apply_transform
             /\ transform = MatrixStep(Str(Join(<<One, Nought, Nought, One,
                                                  DeltaTokens[1], DeltaTokens[2]>>)), TRUE).m
        /\ (dk >= 2 /\ mk >= 4) =>
             /\ apply_transform
             /\ transform = [m.m EXCEPT !.x = ToFixed(Add(tx, DVal(1)), PosOne),
                                        !.y = ToFixed(Add(ty, DVal(2)), PosOne)]
        /\ dk < 2 =>
             /\ apply_transform = m.apply
             /\ transform = (IF m.apply THEN m.m ELSE Identity)

(* ------------------------------ C8, C9, C10 ---------------------------- *)
PixelsFlag == flag_includes(flags, S_pixels)

\* the loop has just printed the object of glyph i, which was rendered: the
\* slot still holds its bitmap
JustEmitted == pc \in {"loop", "exit"} /\ Parsed /\ i >= 1 /\ GlyphRendered(i)

\* C8 as claimed: with the pixels flag and a buffer, the pixels array of a
\* rendered glyph has width * rows entries, entry y * width + x being the
\* buffer byte at offset y * pitch + x for a positive pitch and at
\* (rows - 1 - y) * |pitch| + x for a negative one; without the pixels flag
\* no object has a pixels key.
C8_Claimed ==
  /\ ~PixelsFlag => \A k \in 1..Len(stdout.objs) : ~stdout.objs[k].hasPixels
  /\ (JustEmitted /\ PixelsFlag /\ ~slot.bitmap.null) =>
       LET bm == slot.bitmap
           o  == stdout.objs[i]
       IN  /\ o.hasPixels
           /\ Len(o.pixels) = bm.width * bm.rows
           /\ \A y \in 0..(bm.rows - 1), x \in 0..(bm.width - 1) :
                LET off == IF bm.pitch >= 0 THEN y * bm.pitch + x
                           ELSE (bm.rows - 1 - y) * Abs(bm.pitch) + x
                IN  /\ off \in 0..(Len(bm.buffer) - 1)
                    /\ o.pixels[y * bm.width + x + 1] = bm.buffer[off + 1]

\* C9 as claimed: with the mono flag the render mode is monochrome and the
\* pixels printed take two levels, one value per pixel: two pixels of a
\* glyph print the same value exactly when the engine gave them the same ink.
C9_Claimed ==
  flag_includes(flags, S_mono) =>
    /\ pc \notin {"start"} /\ argc >= 4 => render_mode = "mono"
    /\ (JustEmitted /\ stdout.objs[i].hasPixels) =>
         LET bm == slot.bitmap
             o  == stdout.objs[i]
         IN  /\ Cardinality({ o.pixels[a] : a \in 1..Len(o.pixels) }) <= 2
             /\ \A a \in 1..Len(o.pixels), b \in 1..Len(o.pixels) :
                  (bm.image[a] = bm.image[b]) <=> (o.pixels[a] = o.pixels[b])

\* C10 as claimed: every index the readback reads lies in the buffer, in the
\* bytes of the physical row that stores the logical row being read.
C10_Claimed ==
  (JustEmitted /\ stdout.objs[i].hasPixels) =>
    LET bm == slot.bitmap
        ap == Abs(bm.pitch)
    IN  \A idx \in 1..Len(reads) :
          LET y    == (idx - 1) \div bm.width
              prow == IF bm.pitch >= 0 THEN y ELSE bm.rows - 1 - y
          IN  /\ reads[idx] >= 0
              /\ reads[idx] < bm.rows * ap
              /\ reads[idx] >= prow * ap
              /\ reads[idx] < (prow + 1) * ap

====
